---- MODULE Spec2Model ----
(***************************************************************************)
(* Model of the concurrent optimisation engine of iris / pyphase:          *)
(*   iris/recipes/main.py        opt_routine                               *)
(*   pyphase/recipes/axis_solve  sph_from_focusdiverse_axial_mtf, optfcn,  *)
(*                               realize_focus_plane                       *)
(*   iris/utilities.py           parse_cost_by_iter_lbfgsb,                *)
(*                               prepare_document_local / _global,         *)
(*                               correct_global_document                   *)
(*   iris/data/persistent_queue  PersistentQueue                           *)
(* Spec follows one call of a driver from its entry to the moment it       *)
(* returns or raises; the solver (scipy L-BFGS-B), the worker pool         *)
(* (multiprocessing.Pool) and the stdout capture are the environment.      *)
(* SpecObjective follows one evaluation of optfcn, SpecParsing the parser  *)
(* on texts written line by line, SpecDocuments the document functions on  *)
(* drawn histories, and SpecQueue the calls on one PersistentQueue path.   *)
(***************************************************************************)
EXTENDS Integers, Sequences, FiniteSets, TLC

\* ------------------------------------------------------------------ bounds
\* accepted solver iterations per run
MaxIter == 2
\* objective evaluations per run
MaxFev == 3
\* cores of the host, os.cpu_count() \in 1..MaxCores
MaxCores == 3
\* focus planes of the truth data
MaxPlanes == 2
\* coordinates of the trial vector the solver may move in one step
MaxStepDim == 1
\* largest coefficient value the solver tries
MaxCoef == 1
\* iterate lines of a text handed to the parser
MaxLines == 2
\* leading digit of a printed cost, 0..MaxLead
MaxLead == 2
\* decimal exponent of a printed cost, -MaxExp..MaxExp
MaxExp == 1
\* runs of a multi-start result
MaxRuns == 2
\* iterations of one run
MaxRunLen == 2
\* residual RMS WFE values, 0..MaxWfe
MaxWfe == 1
\* applications of correct_global_document to one document
MaxCorrections == 2
\* distinct items put on the queue
MaxItems == 2
\* calls made on one queue path
MaxOps == 5
\* 'RUNNING' markers of a text handed to split_lbfgsb_iters
MaxMarkers == 258
\* lines of a text before its first marker, and lines that follow a marker
MaxGap == 1

\* --------------------------------------------------------------- constants
\* CPython keeps one object for each int up to 256; `is` (utilities.py:79)
\* compares objects.
SmallIntMax == 256

\* ------------------------------------------------------------ basic helpers
None == "None"

\* An objective value: a number, or IEEE not-a-number.
NaN == [nan |-> TRUE, v |-> 0]
Num(n) == [nan |-> FALSE, v |-> n]

Min(a, b) == IF a <= b THEN a ELSE b
Max(a, b) == IF a >= b THEN a ELSE b
Abs(a) == IF a < 0 THEN 0 - a ELSE a

RECURSIVE SumSeq(_)
SumSeq(s) == IF s = <<>> THEN 0 ELSE Head(s) + SumSeq(Tail(s))

RECURSIVE Pow10(_)
Pow10(n) == IF n <= 0 THEN 1 ELSE 10 * Pow10(n - 1)

Digits == <<"0", "1", "2", "3", "4", "5", "6", "7", "8", "9">>
IsDigit(c) == \E d \in 1..10 : Digits[d] = c
DigitVal(c) == (CHOOSE d \in 1..10 : Digits[d] = c) - 1
IsSpace(c) == c = " "

\* all of s[lo..hi] are digits (vacuous for an empty range)
AllDigits(s, lo, hi) == \A k \in lo..hi : IsDigit(s[k])

RECURSIVE Spaces(_)
Spaces(n) == IF n <= 0 THEN <<>> ELSE <<" ">> \o Spaces(n - 1)

\* ---------------------------------------------------------------- decoder ring
\* decoder_ring = {0: 'Z4', 1: 'Z9', 2: 'Z16', 3: 'Z25'} (axis_solve.py:167-172);
\* opt_routine is called with the same ring as its codex argument.
decoder_ring == <<"Z4", "Z9", "Z16", "Z25">>

\* ------------------------------------------------- the solver's diagnostic text
\* A decimal value m * 10^e with m free of trailing zeros (0 is [m = 0, e = 0]):
\* two values are equal as numbers iff they are equal as records.
RECURSIVE Normalize(_, _)
Normalize(m, e) ==
    IF m = 0 THEN [m |-> 0, e |-> 0]
    ELSE IF m % 10 = 0 THEN Normalize(m \div 10, e + 1)
    ELSE [m |-> m, e |-> e]

\* the digits s[lo..hi] read as a decimal number
RECURSIVE DigitsVal(_, _, _)
DigitsVal(s, lo, hi) ==
    IF hi < lo THEN 0 ELSE 10 * DigitsVal(s, lo, hi - 1) + DigitVal(s[hi])

\* What L-BFGS-B writes after "f=" on an "At iterate" line: format
\* ('f= ',1p,d12.5), a blank and the value right-justified in 12 columns.
\* A NaN objective is written as the letters NaN.
FortranD(f) ==
    LET body == IF f.nan THEN <<"N", "a", "N">>
                ELSE IF f.v < 10
                     THEN <<Digits[f.v + 1], ".", "0", "0", "0", "0", "0", "D", "+", "0", "0">>
                     ELSE <<Digits[(f.v \div 10) + 1], ".", Digits[(f.v % 10) + 1],
                            "0", "0", "0", "0", "D", "+", "0", "1">>
    IN  Spaces(1 + 12 - Len(body)) \o body

\* One line of the captured text: the banner, or an iterate line with its
\* iteration number and the characters that follow "f=".
RunningLine == [kind |-> "RUNNING", iter |-> 0, tail |-> <<>>]
IterateLine(k, f) == [kind |-> "At iterate", iter |-> k, tail |-> FortranD(f)]

\* length of the longest run of digits of s that starts at position p
RECURSIVE DigitRun(_, _)
DigitRun(s, p) == IF p <= Len(s) /\ IsDigit(s[p]) THEN 1 + DigitRun(s, p + 1) ELSE 0

RECURSIVE SpaceRun(_, _)
SpaceRun(s, p) == IF p <= Len(s) /\ IsSpace(s[p]) THEN 1 + SpaceRun(s, p + 1) ELSE 0

RECURSIVE DashRun(_, _)
DashRun(s, p) == IF p <= Len(s) /\ s[p] = "-" THEN 1 + DashRun(s, p + 1) ELSE 0

\* The ways  \s*-*?\d*.\d*D[+-]  can match a prefix of s, as <<i, j, a, b>>:
\* i blanks, j dashes, a digits, one arbitrary character, b digits, then D
\* and a sign.
TailMatches(s) ==
    UNION { UNION { UNION {
        { <<i, j, a, b>> : b \in { c \in 0..DigitRun(s, i + j + a + 2) :
                                     /\ i + j + a + 1 + c + 2 <= Len(s)
                                     /\ s[i + j + a + 1 + c + 1] = "D"
                                     /\ s[i + j + a + 1 + c + 2] \in {"+", "-"} } }
        : a \in 0..DigitRun(s, i + j + 1) }
        : j \in 0..DashRun(s, i + 1) }
        : i \in 0..SpaceRun(s, 1) }

\* backtracking order of the regex engine: \s* and \d* greedy, -*? lazy
Prefer(t, u) ==
    \/ t[1] > u[1]
    \/ t[1] = u[1] /\ t[2] < u[2]
    \/ t[1] = u[1] /\ t[2] = u[2] /\ t[3] > u[3]
    \/ t[1] = u[1] /\ t[2] = u[2] /\ t[3] = u[3] /\ t[4] >= u[4]

\* re.findall(r'At iterate\s*\d*?\s*f=\s*-*?\d*.\d*D[+-]\d*', string) on one
\* line: whether the line matches, and the matched part of its tail.
LineMatches(line) == line.kind = "At iterate" /\ TailMatches(line.tail) # {}

MatchedTail(line) ==
    LET s == line.tail
        ms == TailMatches(s)
        t == CHOOSE t \in ms : \A u \in ms : Prefer(t, u)
        sign == t[1] + t[2] + t[3] + 1 + t[4] + 2
    IN  SubSeq(s, 1, sign + DigitRun(s, sign + 1))

\* s.split()[-1] of a matched line: the characters after the last blank (the
\* match never ends in a blank); with no blank after "f=" the token keeps "f=".
LastToken(m) ==
    LET blanks == { p \in 1..Len(m) : IsSpace(m[p]) } IN
    IF blanks = {} THEN <<"f", "=">> \o m
    ELSE SubSeq(m, (CHOOSE p \in blanks : \A r \in blanks : r <= p) + 1, Len(m))

\* the token left as Fortran wrote it
ReplaceDE_Keep(tok) == tok

\* s.replace('D', 'E')
ReplaceDE(tok) == [k \in 1..Len(tok) |-> IF tok[k] = "D" THEN "E" ELSE tok[k]]

\* float(tok) for a decimal literal  [sign] digits [. digits] [E [sign] digits];
\* ValueError for any other token.
ValueError == [ok |-> FALSE, m |-> 0, e |-> 0]

PyFloat(tok) ==
    LET n == Len(tok)
        s0 == IF n >= 1 /\ tok[1] \in {"+", "-"} THEN 2 ELSE 1
        es == { p \in 1..n : tok[p] = "E" }
        ePos == IF es = {} THEN n + 1 ELSE CHOOSE p \in es : \A r \in es : p <= r
        dots == { p \in s0..(ePos - 1) : tok[p] = "." }
        dot == IF dots = {} THEN ePos ELSE CHOOSE p \in dots : \A r \in dots : p <= r
        x0 == IF ePos + 1 <= n /\ tok[ePos + 1] \in {"+", "-"} THEN ePos + 2 ELSE ePos + 1
        mantOk == /\ AllDigits(tok, s0, dot - 1)
                  /\ AllDigits(tok, dot + 1, ePos - 1)
                  /\ (dot - s0) + Max(0, ePos - 1 - dot) >= 1
        expOk == ePos = n + 1 \/ (x0 <= n /\ AllDigits(tok, x0, n))
    IN  IF ~(mantOk /\ expOk) THEN ValueError
        ELSE LET fracLen == Max(0, ePos - 1 - dot)
                 mant == DigitsVal(tok, s0, dot - 1) * Pow10(fracLen)
                         + DigitsVal(tok, dot + 1, ePos - 1)
                 ex == IF ePos = n + 1 THEN 0
                       ELSE IF tok[ePos + 1] = "-" THEN 0 - DigitsVal(tok, x0, n)
                       ELSE DigitsVal(tok, x0, n)
                 v == Normalize(mant, ex - fracLen)
             IN  [ok |-> TRUE, m |-> IF tok[1] = "-" THEN 0 - v.m ELSE v.m, e |-> v.e]

\* parse_cost_by_iter_lbfgsb: one float per matching line, in text order;
\* raises ValueError when float() rejects a token.
RECURSIVE MatchedLines(_)
MatchedLines(txt) ==
    IF txt = <<>> THEN <<>>
    ELSE IF ~LineMatches(Head(txt)) THEN MatchedLines(Tail(txt))
    ELSE <<MatchedTail(Head(txt))>> \o MatchedLines(Tail(txt))

parse_cost_by_iter_lbfgsb(txt) ==
    LET lines_with_cost_function_values == MatchedLines(txt)
        fortran_values == [k \in DOMAIN lines_with_cost_function_values |->
                              LastToken(lines_with_cost_function_values[k])]
        floats == [k \in DOMAIN fortran_values |-> PyFloat(ReplaceDE(fortran_values[k]))]
    IN  IF \E k \in DOMAIN floats : ~floats[k].ok
        THEN [raised |-> "ValueError", value |-> <<>>]
        ELSE [raised |-> None, value |-> floats]

\* the float a numeric objective value n is equal to
Float(n) == LET v == Normalize(n, 0) IN [ok |-> TRUE, m |-> v.m, e |-> v.e]

\* ------------------------------------------------------------------- state
VARIABLES
    pc,                 \* position of the coordinating process in the driver
    fn,                 \* the driver called: "opt_routine" or "sph"
    parallel,           \* opt_routine's parallel argument
    core_opts,          \* opt_routine's core_opts argument: None or "tuple"
    guess,              \* the guess vector
    cpu_count,          \* os.cpu_count() of the host
    planes,             \* number of focus planes of the truth data
    diffraction,        \* diffraction-limited MTF at the sampled frequencies (0 at cutoff)
    pool,               \* the worker pool
    redirected,         \* stdout is redirected into the capture
    captures,           \* number of times the capture was acquired
    parameter_vectors,  \* the parameter history
    txt,                \* the text captured so far
    x,                  \* the solver's current trial vector
    fval,               \* objective value at x
    fresh,              \* fval was evaluated at x and is not reported yet
    nit,                \* accepted iterations
    nfev,               \* objective evaluations
    ncalls,             \* invocations of minimize
    jobs,               \* the tasks of the outstanding starmap call
    done_order,         \* the order in which its tasks completed
    costfcn,            \* the list starmap returned to optfcn
    exc,                \* the exception in flight, or None
    result,             \* the OptimizeResult being built
    outcome,            \* how the call ended: None, "returned", "raised"
    raised,             \* the exception the caller received
    handed,             \* the object the caller received
    plane_order,        \* the order in which the truth data lists the planes
    values,             \* the costs a solver printed, one per iterate line
    parsed,             \* what parse_cost_by_iter_lbfgsb returned for txt
    blobs,              \* what split_lbfgsb_iters returned for txt
    doc_args,           \* the arguments of a prepare_document call
    document,           \* the result document at hand
    previous,           \* the document before the last operation on it
    doc_ops,            \* the document operations applied so far
    q,                  \* PersistentQueue.q, the in-memory deque
    path_file,          \* the content of the file at PersistentQueue.path
    puts,               \* every item put so far, in order
    removed,            \* the items get or mark_done removed, in order
    q_ops               \* the queue operations applied since construction

inputs == <<fn, parallel, core_opts, guess, cpu_count, planes, diffraction,
            plane_order>>
solver == <<x, fval, fresh, nit, nfev, ncalls>>
starmap == <<jobs, done_order, costfcn>>
ending == <<outcome, raised, handed>>
parsing == <<values, parsed, blobs>>
documents == <<doc_args, document, previous, doc_ops>>
queue == <<q, path_file, puts, removed, q_ops>>
apart == <<parsing, documents, queue>>
driver == <<pc, inputs, pool, redirected, captures, parameter_vectors, txt, solver,
            starmap, exc, result, ending>>
vars == <<driver, apart>>

\* ------------------------------------------------------------- input domains
RingLen == Len(decoder_ring)

ZeroVec(n) == [k \in 1..n |-> 0]

\* guesses of the ring's length, and one shorter and one longer
Guesses == { ZeroVec(n) : n \in (RingLen - 1)..(RingLen + 1) }
               \cup { [ZeroVec(RingLen) EXCEPT ![1] = 1] }

\* the globals of a process before any initializer ran
NoContext == [t_true |-> <<>>, s_true |-> <<>>, defocus_pupils |-> <<>>,
              setup_parameters |-> None, decoder_ring |-> <<>>, diffraction |-> 0]

NoPool == [state |-> None, processes |-> 0, alive |-> 0, inits |-> <<>>, maps |-> 0,
           context |-> NoContext]
NoResult == [set |-> FALSE, x |-> <<>>, fun |-> Num(0), nit |-> 0, nfev |-> 0,
             x_iter |-> <<>>, fun_iter |-> <<>>,
             has_x_iter |-> FALSE, has_fun_iter |-> FALSE, has_time |-> FALSE]

\* ----------------------------------------------- truth data and plane costs
\* grab_axial_data: one entry of ax_t, ax_s and of the defocus values per
\* unique focus position, so the three lists have the same length.
\* The data of focus position k: its tangential and sagittal truth curves
\* and its defocus.  plane_order[i] is the focus position listed i-th.
TruthT(k) == 2 * k
TruthS(k) == k + 1
Defocus(k) == k
t_true == [i \in 1..planes |-> TruthT(plane_order[i])]
s_true == [i \in 1..planes |-> TruthS(plane_order[i])]
defocus_pupils == [i \in 1..planes |-> Defocus(plane_order[i])]

\* _globals (axis_solve.py:174-181, main.py:65-72): the dictionary handed to
\* the pool's initializer
Context ==
    [t_true |-> t_true, s_true |-> s_true, defocus_pupils |-> defocus_pupils,
     setup_parameters |-> "setup_parameters", decoder_ring |-> decoder_ring,
     diffraction |-> diffraction]

\* ready_pool: globals().update(arg_dict) in the process that runs it.  The
\* globals an evaluation reads: those of the worker, or of the coordinating
\* process when there is no pool.
ready_pool(arg_dict) == arg_dict
WorkerGlobals == IF pool.state = None THEN ready_pool(Context) ELSE pool.context

\* zip stopping one tuple early
Zip3_DropLast(a, b, c) ==
    [i \in 1..(Min(Len(a), Min(Len(b), Len(c))) - 1) |-> <<a[i], b[i], c[i]>>]

\* zip(a, b, c): as many tuples as the shortest argument has entries
Zip3(a, b, c) ==
    [i \in 1..Min(Len(a), Min(Len(b), Len(c))) |-> <<a[i], b[i], c[i]>>]

\* {key: value for (key, value) in zip(decoder_ring.values(), wavefrontcoefs)}:
\* the pairs of the first min(len) entries; a term left out is absent (0).
pupil_pass_zernikes(ring, wavefrontcoefs) ==
    [k \in 1..Min(Len(ring), Len(wavefrontcoefs)) |-> <<ring[k], wavefrontcoefs[k]>>]

\* the base pupil's aberration content: the sum of the coefficients passed
Pupil(wavefrontcoefs) ==
    LET z == pupil_pass_zernikes(decoder_ring, wavefrontcoefs)
    IN  SumSeq([k \in DOMAIN z |-> z[k][2]])

\* realize_focus_plane: a distance between the truth curves and the curves
\* simulated for base + defocus, each divided by diffraction; a division by a
\* zero of diffraction yields NaN.
realize_focus_plane(base_wavefront, t, s, defocus_wavefront) ==
    IF WorkerGlobals.diffraction = 0 THEN NaN
    ELSE Num(Abs(base_wavefront + defocus_wavefront - t)
             + Abs(base_wavefront + defocus_wavefront - s))

\* net_costfcn_reducer: the sum of the per-plane costs
RECURSIVE net_costfcn_reducer(_)
net_costfcn_reducer(c) ==
    IF c = <<>> THEN Num(0)
    ELSE LET r == net_costfcn_reducer(Tail(c)) IN
         IF Head(c).nan \/ r.nan THEN NaN ELSE Num(Head(c).v + r.v)

\* zip pairing the truth curves with the defocus bases of the sorted order
StarmapArgs_DefocusUnpermuted ==
    Zip3(t_true, s_true, [i \in 1..planes |-> Defocus(i)])

\* the argument tuples optfcn hands to starmap
StarmapArgs == Zip3(t_true, s_true, defocus_pupils)

\* --------------------------------------------------------------------- Init
\* no text parsed, no document prepared, no queue constructed
NoParse == [raised |-> None, value |-> <<>>]
NoArgs == [set |-> FALSE]
NoDoc == [set |-> FALSE]
NoFile == [exists |-> FALSE, pickled |-> [type |-> "none", items |-> <<>>]]

ParsingIdle == values = <<>> /\ parsed = NoParse /\ blobs = NoParse
DocumentsIdle ==
    doc_args = NoArgs /\ document = NoDoc /\ previous = NoDoc /\ doc_ops = <<>>
QueueIdle ==
    q = <<>> /\ path_file = NoFile /\ puts = <<>> /\ removed = <<>> /\ q_ops = <<>>

DriverIdle ==
    /\ pc = "idle"
    /\ fn = None /\ parallel = FALSE /\ core_opts = None
    /\ guess = <<>> /\ cpu_count = 1 /\ planes = 1 /\ diffraction = 1
    /\ pool = NoPool
    /\ redirected = FALSE /\ captures = 0
    /\ parameter_vectors = <<>> /\ txt = <<>>
    /\ x = <<>> /\ fval = Num(0) /\ fresh = FALSE
    /\ nit = 0 /\ nfev = 0 /\ ncalls = 0
    /\ jobs = <<>> /\ done_order = <<>> /\ costfcn = <<>>
    /\ exc = None /\ result = NoResult
    /\ outcome = None /\ raised = None /\ handed = NoResult
    /\ plane_order = <<1>>

Init == DriverIdle /\ ParsingIdle /\ DocumentsIdle /\ QueueIdle

\* ----------------------------------------------------------- driver: entry
\* The caller invokes a driver.  Lines main.py:54-72 / axis_solve.py:150-181
\* read the truth data and compute diffraction; no pool exists yet.
Call ==
    /\ pc = "idle"
    /\ \E f \in {"opt_routine", "sph"}, par \in BOOLEAN, co \in {None, "tuple"},
          g \in Guesses, c \in 1..MaxCores, p \in 1..MaxPlanes, d \in {0, 1} :
          /\ f = "sph" => (par = TRUE /\ co = None)
          /\ fn' = f /\ parallel' = par /\ core_opts' = co /\ guess' = g
          /\ cpu_count' = c /\ planes' = p /\ diffraction' = d
          /\ plane_order' = [i \in 1..p |-> i]
    /\ pc' = "pool"
    /\ UNCHANGED <<apart, pool, redirected, captures, parameter_vectors, txt, solver,
                   starmap, exc, result, ending>>

\* the call ends by raising e without any handler of the driver running
Propagate(e) ==
    /\ pc' = "done"
    /\ exc' = e
    /\ outcome' = "raised" /\ raised' = e /\ handed' = NoResult

\* Pool(processes=os.cpu_count() - 1, initializer=..., initargs=[_globals]):
\* Pool raises ValueError for processes < 1; otherwise every worker runs the
\* initializer once: inits[w] counts the initializer calls of worker w, and
\* context is what the initializer left in the workers' globals.
NewPool(processes) ==
    [state |-> "running", processes |-> processes, alive |-> processes,
     inits |-> [w \in 1..processes |-> 1], maps |-> 0,
     context |-> ready_pool(Context)]

CreatePool ==
    /\ pc = "pool"
    /\ IF fn = "opt_routine" /\ ~parallel
       THEN /\ pool' = NoPool
            /\ pc' = "prepare_globals"
            /\ UNCHANGED <<exc, ending>>
       ELSE IF cpu_count - 1 < 1
       THEN /\ Propagate("ValueError")
            /\ UNCHANGED pool
       ELSE /\ pool' = NewPool(cpu_count - 1)
            /\ pc' = IF fn = "opt_routine" THEN "prepare_globals" ELSE "try"
            /\ UNCHANGED <<exc, ending>>
    /\ UNCHANGED <<inputs, apart, redirected, captures, parameter_vectors, txt, solver,
                   starmap, result>>

\* main.py:77  prepare_globals({**_globals, 'pool': pool}) returns
PrepareGlobals ==
    /\ pc = "prepare_globals"
    /\ pc' = "try"
    /\ UNCHANGED <<inputs, apart, pool, redirected, captures, parameter_vectors, txt,
                   solver, starmap, exc, result, ending>>

\* main.py:77  prepare_globals raises: the statement is outside the try, so
\* no handler of opt_routine runs.
PrepareGlobalsRaises ==
    /\ pc = "prepare_globals"
    /\ Propagate("PrepareGlobalsError")
    /\ UNCHANGED <<inputs, apart, pool, redirected, captures, parameter_vectors, txt,
                   solver, starmap, result>>

\* ------------------------------------------------- driver: try, with, solver
\* EnterTry without line 85: the guess is not recorded before the solver runs.
EnterTry_NoGuess ==
    /\ pc = "try"
    /\ parameter_vectors' = <<>>
    /\ pc' = "with"
    /\ UNCHANGED <<inputs, apart, pool, redirected, captures, txt, solver, starmap,
                   exc, result, ending>>

\* main.py:84-86: the try is entered and the guess is appended to the history.
\* axis_solve.py:189-190: the try is entered; the history stays empty.
EnterTry ==
    /\ pc = "try"
    /\ parameter_vectors' = IF fn = "opt_routine" THEN <<guess>> ELSE <<>>
    /\ pc' = "with"
    /\ UNCHANGED <<inputs, apart, pool, redirected, captures, txt, solver, starmap,
                   exc, result, ending>>

\* forcefully_redirect_stdout: entering redirects stdout into the capture,
\* leaving restores the original destination.
forcefully_redirect_stdout_enter == TRUE
forcefully_redirect_stdout_exit == FALSE

\* main.py:88 / axis_solve.py:192: with forcefully_redirect_stdout() as out
EnterWith ==
    /\ pc = "with"
    /\ redirected' = forcefully_redirect_stdout_enter
    /\ captures' = captures + 1
    /\ txt' = <<>>
    /\ pc' = IF fn = "opt_routine" THEN "args" ELSE "minimize"
    /\ UNCHANGED <<inputs, apart, pool, parameter_vectors, solver, starmap, exc,
                   result, ending>>

\* main.py:89-90, 99: args is bound only when core_opts is None; reading it at
\* line 99 otherwise raises UnboundLocalError inside the with block.
BindArgs ==
    /\ pc = "args"
    /\ IF core_opts = None
       THEN pc' = "minimize" /\ UNCHANGED exc
       ELSE pc' = "unwind" /\ exc' = "UnboundLocalError"
    /\ UNCHANGED <<inputs, apart, pool, redirected, captures, parameter_vectors, txt,
                   solver, starmap, result, ending>>

\* minimize(fun=optfcn, x0=guess, method='L-BFGS-B', options={'disp': True},
\* callback=callback) is entered: the solver copies x0 and prints its banner.
StartSolver ==
    /\ pc = "minimize"
    /\ ncalls' = ncalls + 1
    /\ x' = guess
    /\ txt' = Append(txt, RunningLine)
    /\ pc' = "solver"
    /\ UNCHANGED <<inputs, apart, pool, redirected, captures, parameter_vectors, fval,
                   fresh, nit, nfev, starmap, exc, result, ending>>

\* the trial points the solver may move to from v
Neighbours(v) ==
    { [v EXCEPT ![k] = (v[k] + 1) % (MaxCoef + 1)] : k \in 1..Min(Len(v), MaxStepDim) }

\* The solver asks for the objective: at x0 first, later at a trial point.
SolverEval ==
    /\ pc = "solver"
    /\ nfev < MaxFev
    /\ x' \in (IF nfev = 0 THEN {x} ELSE Neighbours(x))
    /\ fresh' = FALSE
    /\ costfcn' = <<>>
    /\ pc' = "optfcn"
    /\ UNCHANGED <<inputs, apart, pool, redirected, captures, parameter_vectors, txt,
                   fval, nit, nfev, ncalls, jobs, done_order, exc, result, ending>>

\* the iterate lines printed so far
IterateLines == { k \in DOMAIN txt : txt[k].kind = "At iterate" }

\* Before the first iteration the solver prints "At iterate 0  f= ...".
SolverIterate0 ==
    /\ pc = "solver"
    /\ fresh /\ IterateLines = {}
    /\ txt' = Append(txt, IterateLine(0, fval))
    /\ fresh' = FALSE
    /\ UNCHANGED <<pc, inputs, apart, pool, redirected, captures, parameter_vectors,
                   x, fval, nit, nfev, ncalls, starmap, exc, result, ending>>

\* main.py:81-82  callback(x): parameter_vectors.append(x.copy())
\* a callback appending the solver's array itself: every vector it appended
\* is that one array and shows its current content
callback_Aliased(pv, v) ==
    [k \in 1..(Len(pv) + 1) |-> IF k = 1 /\ Len(pv) >= 1 THEN pv[1] ELSE v]

\* a callback appending the vector twice
callback_Twice(pv, v) == Append(Append(pv, v), v)

\* axis_solve.py:186-187  callback(x): parameter_vectors.append(x)
\* The history holds the values of the vectors appended.
callback(pv, v) == Append(pv, v)

\* The solver accepts the trial point as iteration nit + 1: it prints the
\* iterate line and then calls the callback with the accepted vector.
SolverNewX ==
    /\ pc = "solver"
    /\ fresh /\ IterateLines # {}
    /\ nit < MaxIter
    /\ nit' = nit + 1
    /\ txt' = Append(txt, IterateLine(nit + 1, fval))
    /\ parameter_vectors' = callback(parameter_vectors, x)
    /\ fresh' = FALSE
    /\ UNCHANGED <<pc, inputs, apart, pool, redirected, captures, x, fval, nfev, ncalls,
                   starmap, exc, result, ending>>

\* The solver stops (converged, iteration budget, abnormal line search) and
\* minimize returns its OptimizeResult.
SolverReturn ==
    /\ pc = "solver"
    /\ IterateLines # {}
    /\ result' = [NoResult EXCEPT !.set = TRUE, !.x = x, !.fun = fval,
                                  !.nit = nit, !.nfev = nfev]
    /\ pc' = "exit_with"
    /\ UNCHANGED <<inputs, apart, pool, redirected, captures, parameter_vectors, txt,
                   solver, starmap, exc, ending>>

\* The solver itself raises.
SolverRaises ==
    /\ pc = "solver"
    /\ exc' = "SolverError"
    /\ pc' = "unwind"
    /\ UNCHANGED <<inputs, apart, pool, redirected, captures, parameter_vectors, txt,
                   solver, starmap, result, ending>>

\* ------------------------------------------------------------------ optfcn
\* a task of the outstanding starmap call: its state, its result, the
\* argument tuple it was submitted with and the number of times a worker
\* invoked the evaluator on it
Task(st, val, args, runs) == [st |-> st, val |-> val, args |-> args, runs |-> runs]

\* axis_solve.py:99-109: build the pupil and hand one tuple per plane to
\* pool.starmap.  Without a pool (opt_routine, parallel=False) the planes are
\* evaluated in the coordinating process, in order.
OptfcnCall ==
    /\ pc = "optfcn"
    /\ IF pool.state = None
       THEN /\ costfcn' = [i \in DOMAIN StarmapArgs |->
                              realize_focus_plane(Pupil(x), StarmapArgs[i][1],
                                                  StarmapArgs[i][2], StarmapArgs[i][3])]
            /\ pc' = "reduce"
            /\ UNCHANGED <<jobs, done_order, pool>>
       ELSE /\ jobs' = [i \in DOMAIN StarmapArgs |->
                           Task("queued", Num(0), StarmapArgs[i], 0)]
            /\ done_order' = <<>>
            /\ pool' = [pool EXCEPT !.maps = @ + 1]
            /\ pc' = "starmap"
            /\ UNCHANGED costfcn
    /\ UNCHANGED <<inputs, apart, redirected, captures, parameter_vectors, txt,
                   solver, exc, result, ending>>

Running == { i \in DOMAIN jobs : jobs[i].st = "running" }

\* an idle worker of the pool takes the next queued task
WorkerStart ==
    /\ pc = "starmap"
    /\ Cardinality(Running) < pool.processes
    /\ \E i \in DOMAIN jobs :
          /\ jobs[i].st = "queued"
          /\ \A j \in 1..(i - 1) : jobs[j].st # "queued"
          /\ jobs' = [jobs EXCEPT ![i].st = "running", ![i].runs = @ + 1]
    /\ UNCHANGED <<pc, inputs, apart, pool, redirected, captures, parameter_vectors, txt,
                   solver, done_order, costfcn, exc, result, ending>>

\* an evaluator that normalises in place: it overwrites the worker's diffraction
WorkerFinish_WritesContext ==
    /\ pc = "starmap"
    /\ \E i \in Running :
          /\ jobs' = [jobs EXCEPT
                        ![i].st = "ok",
                        ![i].val = realize_focus_plane(Pupil(x), jobs[i].args[1],
                                       jobs[i].args[2], jobs[i].args[3])]
          /\ done_order' = Append(done_order, i)
    /\ pool' = [pool EXCEPT !.context.diffraction = 0]
    /\ UNCHANGED <<pc, inputs, apart, redirected, captures, parameter_vectors, txt,
                   solver, costfcn, exc, result, ending>>

\* a worker finishes its task: rfp_mp(t_true[i], s_true[i], defocus_pupils[i])
WorkerFinish ==
    /\ pc = "starmap"
    /\ \E i \in Running :
          /\ jobs' = [jobs EXCEPT
                        ![i].st = "ok",
                        ![i].val = realize_focus_plane(Pupil(x), jobs[i].args[1],
                                       jobs[i].args[2], jobs[i].args[3])]
          /\ done_order' = Append(done_order, i)
    /\ UNCHANGED <<pc, inputs, apart, pool, redirected, captures, parameter_vectors, txt,
                   solver, costfcn, exc, result, ending>>

\* a worker's evaluation raises
WorkerRaises ==
    /\ pc = "starmap"
    /\ \E i \in Running :
          /\ jobs' = [jobs EXCEPT ![i].st = "err"]
          /\ done_order' = Append(done_order, i)
    /\ UNCHANGED <<pc, inputs, apart, pool, redirected, captures, parameter_vectors, txt,
                   solver, costfcn, exc, result, ending>>

\* StarmapResults collecting the results as they arrive (imap_unordered)
StarmapResults_CompletionOrder(js, order) == [k \in DOMAIN js |-> js[order[k]].val]

\* the list starmap builds from the finished tasks: each result is stored at
\* the index of its argument tuple
StarmapResults(js, order) == [i \in DOMAIN js |-> js[i].val]

\* starmap returning as soon as one task has finished
StarmapReturn_NoWait ==
    /\ pc = "starmap"
    /\ \E i \in DOMAIN jobs : jobs[i].st \in {"ok", "err"}
    /\ IF \E i \in DOMAIN jobs : jobs[i].st = "err"
       THEN /\ exc' = "WorkerError"
            /\ pc' = "unwind"
            /\ UNCHANGED costfcn
       ELSE /\ costfcn' = [i \in DOMAIN jobs |-> jobs[i].val]
            /\ pc' = "reduce"
            /\ UNCHANGED exc
    /\ UNCHANGED <<inputs, apart, pool, redirected, captures, parameter_vectors, txt,
                   solver, jobs, done_order, result, ending>>

\* pool.starmap returns once every task has finished: the list of results,
\* or the exception of a failed task, which leaves optfcn and the solver.
StarmapReturn ==
    /\ pc = "starmap"
    /\ \A i \in DOMAIN jobs : jobs[i].st \in {"ok", "err"}
    /\ IF \E i \in DOMAIN jobs : jobs[i].st = "err"
       THEN /\ exc' = "WorkerError"
            /\ pc' = "unwind"
            /\ UNCHANGED costfcn
       ELSE /\ costfcn' = StarmapResults(jobs, done_order)
            /\ pc' = "reduce"
            /\ UNCHANGED exc
    /\ UNCHANGED <<inputs, apart, pool, redirected, captures, parameter_vectors, txt,
                   solver, jobs, done_order, result, ending>>

\* axis_solve.py:110: return net_costfcn_reducer(costfcn), back in the solver
OptfcnReturn ==
    /\ pc = "reduce"
    /\ fval' = net_costfcn_reducer(costfcn)
    /\ nfev' = nfev + 1
    /\ fresh' = TRUE
    /\ pc' = "solver"
    /\ UNCHANGED <<inputs, apart, pool, redirected, captures, parameter_vectors, txt,
                   x, nit, ncalls, starmap, exc, result, ending>>

\* ------------------------------------------ parse_cost_by_iter_lbfgsb alone
\* A text is written line by line, as L-BFGS-B writes it, and then parsed.
\* A printed cost is (-)lead * 10^exp.
PrintedValues ==
    [neg : BOOLEAN, lead : 0..MaxLead, exp : (0 - MaxExp)..MaxExp]

RECURSIVE Zeros(_)
Zeros(n) == IF n <= 0 THEN <<>> ELSE <<"0">> \o Zeros(n - 1)

\* format (1p,d<w>.<prec>) of the value after 'f= ': sign, one digit, the
\* point, prec digits, D, the exponent's sign and two digits
FortranValue(v, prec) ==
    LET body == (IF v.neg THEN <<"-">> ELSE <<>>)
                \o <<Digits[v.lead + 1], ".">> \o Zeros(prec)
                \o <<"D", IF v.exp < 0 THEN "-" ELSE "+", "0", Digits[Abs(v.exp) + 1]>>
    IN  Spaces(1 + prec + 7 - Len(body)) \o body

\* the float a printed value denotes
ValueOf(v) ==
    LET n == Normalize(v.lead, v.exp)
    IN  [ok |-> TRUE, m |-> IF v.neg THEN 0 - n.m ELSE n.m, e |-> n.e]

InitParsing ==
    /\ DriverIdle /\ DocumentsIdle /\ QueueIdle
    /\ values = <<>> /\ parsed = NoParse /\ blobs = NoParse

\* the solver writes the line of the next iterate, in the format of L-BFGS-B
EmitLine ==
    /\ pc = "idle"
    /\ Len(values) < MaxLines
    /\ \E v \in PrintedValues :
          /\ txt' = Append(txt, [kind |-> "At iterate", iter |-> Len(values),
                                 tail |-> FortranValue(v, 5)])
          /\ values' = Append(values, v)
    /\ UNCHANGED <<pc, inputs, pool, redirected, captures, parameter_vectors, solver,
                   starmap, exc, result, ending, parsed, blobs, documents, queue>>

\* the line  At iterate <k>    f=  3.0000000D+02
EmitExample ==
    /\ pc = "idle"
    /\ Len(values) < MaxLines
    /\ LET v == [neg |-> FALSE, lead |-> 3, exp |-> 2] IN
          /\ txt' = Append(txt, [kind |-> "At iterate", iter |-> Len(values),
                                 tail |-> FortranValue(v, 7)])
          /\ values' = Append(values, v)
    /\ UNCHANGED <<pc, inputs, pool, redirected, captures, parameter_vectors, solver,
                   starmap, exc, result, ending, parsed, blobs, documents, queue>>

\* the solver starts by writing its banner, a line without a function value
EmitBanner ==
    /\ pc = "idle"
    /\ txt = <<>>
    /\ txt' = Append(txt, RunningLine)
    /\ UNCHANGED <<pc, inputs, pool, redirected, captures, parameter_vectors, solver,
                   starmap, exc, result, ending, parsing, documents, queue>>

\* parse_cost_by_iter_lbfgsb(txt)
Parse ==
    /\ pc = "idle"
    /\ parsed' = parse_cost_by_iter_lbfgsb(txt)
    /\ pc' = "parsed"
    /\ UNCHANGED <<inputs, pool, redirected, captures, parameter_vectors, txt, solver,
                   starmap, exc, result, ending, values, blobs, documents, queue>>

NextParsing ==
    \/ EmitLine
    \/ EmitExample
    \/ EmitBanner
    \/ Parse

SpecParsing == InitParsing /\ [][NextParsing]_vars

\* ------------------------------------------------- split_lbfgsb_iters alone
\* A text is a sequence of lines; the marker 'RUNNING' starts a banner line.
\* [s.start() for s in re.finditer('RUNNING', string)]
MarkerStarts(string) ==
    SelectSeq([k \in 1..Len(string) |-> k], LAMBDA k : string[k].kind = "RUNNING")

\* a is not b, for ints a and b: equal ints up to SmallIntMax are one object;
\* whether two equal larger ints are one object is up to the interpreter.
IsNot(a, b, same_object) ==
    IF a # b THEN TRUE
    ELSE IF a <= SmallIntMax THEN FALSE
    ELSE ~same_object

\* The loop of utilities.py:78-83 with the 0-based idx; starts[idx + 1] past
\* the end of starts raises IndexError.
split_lbfgsb_iters(string, same_object) ==
    LET starts == MarkerStarts(string)
        n == Len(starts)
        overrun == { idx \in 0..(n - 1) :
                       IsNot(idx, n - 1, same_object) /\ idx + 1 > n - 1 }
    IN  IF overrun # {} THEN [raised |-> "IndexError", value |-> <<>>]
        ELSE [raised |-> None,
              value |-> [i \in 1..n |->
                           IF IsNot(i - 1, n - 1, same_object)
                           THEN SubSeq(string, starts[i], starts[i + 1] - 1)
                           ELSE SubSeq(string, starts[i], Len(string))]]

OtherLine == [kind |-> "At iterate", iter |-> 0, tail |-> <<>>]

\* the length of the first chunk once a second marker has closed it
Markers == MarkerStarts(txt)
FirstChunkLen == Markers[2] - Markers[1]
LastChunkLen == Len(txt) - Markers[Len(Markers)] + 1

InitSplit ==
    /\ DriverIdle /\ ParsingIdle /\ DocumentsIdle /\ QueueIdle

\* a line without the marker: before the first marker, or inside a chunk
\* (chunks after the first are as long as the first)
WriteLine ==
    /\ pc = "idle"
    /\ IF Markers = <<>> THEN Len(txt) < MaxGap
       ELSE IF Len(Markers) = 1 THEN LastChunkLen < 1 + MaxGap
       ELSE LastChunkLen < FirstChunkLen
    /\ txt' = Append(txt, OtherLine)
    /\ UNCHANGED <<pc, inputs, pool, redirected, captures, parameter_vectors, solver,
                   starmap, exc, result, ending, apart>>

\* the solver is started again and writes its banner
WriteMarker ==
    /\ pc = "idle"
    /\ Len(Markers) < MaxMarkers
    /\ Len(Markers) >= 2 => LastChunkLen = FirstChunkLen
    /\ txt' = Append(txt, RunningLine)
    /\ UNCHANGED <<pc, inputs, pool, redirected, captures, parameter_vectors, solver,
                   starmap, exc, result, ending, apart>>

\* split_lbfgsb_iters(txt)
Split ==
    /\ pc = "idle"
    /\ \E same_object \in BOOLEAN : blobs' = split_lbfgsb_iters(txt, same_object)
    /\ pc' = "split"
    /\ UNCHANGED <<inputs, pool, redirected, captures, parameter_vectors, txt, solver,
                   starmap, exc, result, ending, values, parsed, documents, queue>>

NextSplit ==
    \/ WriteLine
    \/ WriteMarker
    \/ Split

SpecSplit == InitSplit /\ [][NextSplit]_vars

\* ------------------------------------------------------- result documents
\* The running lowest value of the scans: 1e99 before any item was taken
\* (every residual of the model is below it), then the item taken.
lowest_rms == [unset |-> TRUE, v |-> 0]
lowest_wfe_Zero == [unset |-> FALSE, v |-> 0]
lowest_wfe == [unset |-> TRUE, v |-> 0]

\* item <= lowest
NotAbove(item, lowest) == lowest.unset \/ item <= lowest.v

\* item < lowest
Below(item, lowest) == lowest.unset \/ item < lowest.v

\* enumerate(rrmswfe) x enumerate(iterable): the positions in loop order
RECURSIVE Enumerate(_, _)
Enumerate(rr, idx1) ==
    IF idx1 > Len(rr) THEN <<>>
    ELSE [idx2 \in 1..Len(rr[idx1]) |-> <<idx1, idx2>>] \o Enumerate(rr, idx1 + 1)

\* the double loop of utilities.py:247-253 and 294-300, from the state `at`
RECURSIVE Scan(_, _, _)
Scan(rr, ps, at) ==
    IF ps = <<>> THEN at
    ELSE LET item == rr[Head(ps)[1]][Head(ps)[2]] IN
         Scan(rr, Tail(ps),
              IF Below(item, at.lowest)
              THEN [o_idx |-> Head(ps)[1], i_idx |-> Head(ps)[2],
                    lowest |-> [unset |-> FALSE, v |-> item]]
              ELSE at)

\* o_idx, i_idx = 0, 0 (the first position) and the lowest value so far
ScanFrom(rr, start) ==
    Scan(rr, Enumerate(rr, 1), [o_idx |-> 1, i_idx |-> 1, lowest |-> start])

\* sum([len(i) for i in fiter])
RECURSIVE SumLen(_)
SumLen(fiter) == IF fiter = <<>> THEN 0 ELSE Len(Head(fiter)) + SumLen(Tail(fiter))

\* The arguments of a prepare_document call.  x_iter holds one vector per
\* iteration, fun_iter its cost and rrmswfe_iter its residual; a multi-start
\* result nests them one list per run, a single trial leaves them flat.
\* The cost of (run o, iteration i) tells the position: 10 * o + i.
VectorAt(o, i) == <<o, i>>
CostAt(o, i) == 10 * o + i

RunShapes == UNION { [1..n -> 0..MaxWfe] : n \in 1..MaxRunLen }
NestedShapes == UNION { [1..r -> RunShapes] : r \in 1..MaxRuns }

OptimizationResult(nested, rr) ==
    IF nested
    THEN [x |-> VectorAt(Len(rr), Len(rr[Len(rr)])),
          x_iter |-> [o \in DOMAIN rr |-> [i \in DOMAIN rr[o] |-> VectorAt(o, i)]],
          fun |-> CostAt(Len(rr), Len(rr[Len(rr)])),
          fun_iter |-> [o \in DOMAIN rr |-> [i \in DOMAIN rr[o] |-> CostAt(o, i)]],
          time |-> "time", nit |-> SumLen(rr) - Len(rr), nfev |-> SumLen(rr)]
    ELSE [x |-> VectorAt(1, Len(rr)),
          x_iter |-> [i \in DOMAIN rr |-> VectorAt(1, i)],
          fun |-> CostAt(1, Len(rr)),
          fun_iter |-> [i \in DOMAIN rr |-> CostAt(1, i)],
          time |-> "time", nit |-> Len(rr) - 1, nfev |-> Len(rr)]

DocArgs(nested, rr) ==
    [set |-> TRUE, nested |-> nested,
     sim_params |-> "sim_params", codex |-> decoder_ring,
     truth_params |-> "truth_params", truth_rmswfe |-> MaxWfe,
     rrmswfe_iter |-> rr, normed |-> TRUE,
     optimization_result |-> OptimizationResult(nested, rr)]

prepare_document_local(a) ==
    LET r == a.optimization_result
        xiter == r.x_iter
        f == r.fun
        fiter == r.fun_iter
        t == r.time
    IN  [global |-> FALSE,
         sim_params |-> a.sim_params,
         codex |-> a.codex,
         truth_params |-> a.truth_params,
         zernike_normed |-> a.normed,
         result_iter |-> xiter,
         cost_iter |-> fiter,
         rrmswfe_iter |-> a.rrmswfe_iter,
         result_final |-> r.x,
         truth_rmswfe |-> a.truth_rmswfe,
         cost_first |-> fiter[1],
         cost_final |-> f,
         rrmswfe_first |-> a.rrmswfe_iter[1],
         rrmswfe_final |-> a.rrmswfe_iter[Len(a.rrmswfe_iter)],
         time |-> t,
         nit |-> r.nit,
         nfev |-> r.nfev,
         nrandomstart |-> FALSE]

\* prepare_document_global on nested histories.  (On the flat histories of a
\* single trial line 233 takes len() of a float: TypeError.)
prepare_document_global(a) ==
    LET r == a.optimization_result
        xiter == r.x_iter
        f == r.fun
        fiter == r.fun_iter
        t == r.time
        nstart == Len(xiter)
        rrmswfe_first == a.rrmswfe_iter[1][1]
        cost_first == fiter[1][1]
        at == ScanFrom(a.rrmswfe_iter, lowest_rms)
        rrmswfe_final == a.rrmswfe_iter[at.o_idx][at.i_idx]
        cost_final == fiter[at.o_idx][at.i_idx]
    IN  [global |-> TRUE,
         sim_params |-> a.sim_params,
         codex |-> a.codex,
         truth_params |-> a.truth_params,
         zernike_normed |-> a.normed,
         result_iter |-> xiter,
         cost_iter |-> fiter,
         rrmswfe_iter |-> a.rrmswfe_iter,
         result_final |-> r.x,
         truth_rmswfe |-> a.truth_rmswfe,
         cost_first |-> cost_first,
         cost_final |-> cost_final,
         rrmswfe_first |-> rrmswfe_first,
         rrmswfe_final |-> rrmswfe_final,
         time |-> t,
         nrandomstart |-> nstart,
         nit |-> SumLen(fiter)]

correct_global_document(d) ==
    LET rrmswfe == d.rrmswfe_iter
        cost == d.cost_iter
        at == ScanFrom(rrmswfe, lowest_wfe)
    IN  [d EXCEPT !.rrmswfe_final = rrmswfe[at.o_idx][at.i_idx],
                  !.cost_final = cost[at.o_idx][at.i_idx]]

\* min(v) of a non-empty sequence of numbers
RECURSIVE PyMin(_)
PyMin(v) == IF Len(v) = 1 THEN v[1] ELSE Min(v[1], PyMin(Tail(v)))

\* out = document.copy(); out['rrmswfe_final'] = min([min(v) for v in rrmswfe])
recheck_min_rrmswfe_document(d) ==
    LET rrmswfe == d.rrmswfe_iter
        rrmswfe_min == PyMin([k \in DOMAIN rrmswfe |-> PyMin(rrmswfe[k])])
    IN  [d EXCEPT !.rrmswfe_final = rrmswfe_min]

\* A global document as stored before the correction existed: its finals are
\* those of the last iteration of the last run.
StaleDocument(a) ==
    LET rr == a.rrmswfe_iter
        o == Len(rr)
    IN  [prepare_document_global(a) EXCEPT
            !.rrmswfe_final = rr[o][Len(rr[o])],
            !.cost_final = a.optimization_result.fun_iter[o][Len(rr[o])]]

InitDocuments ==
    /\ DriverIdle /\ ParsingIdle /\ QueueIdle
    /\ \/ \E rr \in NestedShapes : doc_args = DocArgs(TRUE, rr)
       \/ \E rr \in RunShapes : doc_args = DocArgs(FALSE, rr)
    /\ document = NoDoc /\ previous = NoDoc /\ doc_ops = <<>>

DocStep(op, d) ==
    /\ previous' = document
    /\ document' = d
    /\ doc_ops' = Append(doc_ops, op)
    /\ UNCHANGED <<driver, parsing, queue, doc_args>>

PrepareLocal ==
    /\ doc_ops = <<>> /\ ~doc_args.nested
    /\ DocStep("prepare_document_local", prepare_document_local(doc_args))

PrepareGlobal ==
    /\ doc_ops = <<>>
    /\ IF doc_args.nested
       THEN DocStep("prepare_document_global", prepare_document_global(doc_args))
       ELSE DocStep("TypeError", NoDoc)

LoadStale ==
    /\ doc_ops = <<>> /\ doc_args.nested
    /\ DocStep("stale", StaleDocument(doc_args))

Corrections == Cardinality({ k \in DOMAIN doc_ops : doc_ops[k] = "correct_global_document" })

Correct ==
    /\ doc_ops # <<>>
    /\ doc_ops[1] \in {"prepare_document_global", "stale"}
    /\ doc_ops[Len(doc_ops)] # "recheck_min_rrmswfe_document"
    /\ Corrections < MaxCorrections
    /\ DocStep("correct_global_document", correct_global_document(document))

\* recheck_min_rrmswfe_document on a document as prepared or loaded
Recheck ==
    /\ Len(doc_ops) = 1
    /\ doc_ops[1] \in {"prepare_document_global", "stale"}
    /\ DocStep("recheck_min_rrmswfe_document", recheck_min_rrmswfe_document(document))

NextDocuments ==
    \/ Recheck
    \/ PrepareLocal
    \/ PrepareGlobal
    \/ LoadStale
    \/ Correct

SpecDocuments == InitDocuments /\ [][NextDocuments]_vars

\* -------------------------------------------------------- PersistentQueue
\* One PersistentQueue object at a time on one path; constructing a new one
\* replaces the object, the file stays.
Items == 1..MaxItems

\* pickle.dump(self.q, file, protocol=-1) into the file opened with 'wb', and
\* pickle.load of such a file
persist(d) == [exists |-> TRUE, pickled |-> [type |-> "deque", items |-> d]]
Unpickle(f) == f.pickled.items

\* the record of one call: what it returned (0 for nothing) or raised
Op(name, item, err) == [op |-> name, item |-> item, raised |-> err]

InitQueue ==
    /\ DriverIdle /\ ParsingIdle /\ DocumentsIdle
    /\ q = <<>> /\ path_file = NoFile
    /\ puts = <<>> /\ removed = <<>> /\ q_ops = <<>>

QueueStep(o) ==
    /\ Len(q_ops) < MaxOps
    /\ q_ops' = Append(q_ops, o)
    /\ UNCHANGED <<driver, parsing, documents>>

\* __init__(path): load the pickled deque, or start empty without a file
PersistentQueue ==
    /\ q' = IF path_file.exists THEN Unpickle(path_file) ELSE <<>>
    /\ QueueStep(Op("__init__", 0, None))
    /\ UNCHANGED <<path_file, puts, removed>>

put(item) ==
    /\ q' = Append(q, item)
    /\ path_file' = persist(q')
    /\ puts' = Append(puts, item)
    /\ QueueStep(Op("put", 0, None))
    /\ UNCHANGED removed

\* return self.q.popleft(): the persist() after it is never reached
get ==
    /\ IF q = <<>>
       THEN /\ QueueStep(Op("get", 0, "IndexError"))
            /\ UNCHANGED <<q, removed>>
       ELSE /\ q' = Tail(q)
            /\ removed' = Append(removed, Head(q))
            /\ QueueStep(Op("get", Head(q), None))
    /\ UNCHANGED <<path_file, puts>>

\* peek taking the item off the queue without putting it back
peek_Destructive ==
    /\ IF q = <<>>
       THEN QueueStep(Op("peek", 0, "IndexError"))
       ELSE QueueStep(Op("peek", Head(q), None))
    /\ q' = IF q = <<>> THEN q ELSE Tail(q)
    /\ UNCHANGED <<path_file, puts, removed>>

\* item = self.q.popleft(); self.q.appendleft(item); return item
peek ==
    /\ IF q = <<>>
       THEN QueueStep(Op("peek", 0, "IndexError"))
       ELSE QueueStep(Op("peek", Head(q), None))
    /\ q' = IF q = <<>> THEN q ELSE <<Head(q)>> \o Tail(q)
    /\ UNCHANGED <<path_file, puts, removed>>

\* mark_done without the persist() of line 84
mark_done_NoPersist ==
    /\ IF q = <<>>
       THEN /\ QueueStep(Op("mark_done", 0, "IndexError"))
            /\ UNCHANGED <<q, removed>>
       ELSE /\ q' = Tail(q)
            /\ removed' = Append(removed, Head(q))
            /\ QueueStep(Op("mark_done", 0, None))
    /\ UNCHANGED <<path_file, puts>>

mark_done ==
    /\ IF q = <<>>
       THEN /\ QueueStep(Op("mark_done", 0, "IndexError"))
            /\ UNCHANGED <<q, path_file, removed>>
       ELSE /\ q' = Tail(q)
            /\ path_file' = persist(q')
            /\ removed' = Append(removed, Head(q))
            /\ QueueStep(Op("mark_done", 0, None))
    /\ UNCHANGED puts

NextQueue ==
    \/ PersistentQueue
    \/ \E item \in Items : put(item)
    \/ get
    \/ peek
    \/ mark_done

SpecQueue == InitQueue /\ [][NextQueue]_vars

\* --------------------------------------------- one evaluation of optfcn
\* optfcn called by the solver inside sph_from_focusdiverse_axial_mtf, on any
\* trial vector, with the truth data listed in any order.
PlaneOrders(n) ==
    { p \in [1..n -> 1..n] : \A i, j \in 1..n : p[i] = p[j] => i = j }

TrialVectors == [1..RingLen -> 0..MaxCoef]

InitObjective ==
    /\ pc = "optfcn"
    /\ fn = "sph" /\ parallel = TRUE /\ core_opts = None
    /\ guess = ZeroVec(RingLen)
    /\ cpu_count \in 2..MaxCores
    /\ planes \in 1..MaxPlanes
    /\ plane_order \in PlaneOrders(planes)
    /\ diffraction \in {0, 1}
    /\ pool = NewPool(cpu_count - 1)
    /\ redirected = TRUE /\ captures = 1
    /\ parameter_vectors = <<>> /\ txt = <<RunningLine>>
    /\ x \in TrialVectors /\ fval = Num(0) /\ fresh = FALSE
    /\ nit = 0 /\ nfev = 0 /\ ncalls = 1
    /\ jobs = <<>> /\ done_order = <<>> /\ costfcn = <<>>
    /\ exc = None /\ result = NoResult
    /\ outcome = None /\ raised = None /\ handed = NoResult
    /\ ParsingIdle /\ DocumentsIdle /\ QueueIdle

NextObjective ==
    \/ OptfcnCall
    \/ WorkerStart
    \/ WorkerFinish
    \/ WorkerRaises
    \/ StarmapReturn
    \/ OptfcnReturn

SpecObjective == InitObjective /\ [][NextObjective]_vars

\* ------------------------------------------------------- driver: the way out
\* The with block is left normally: the capture restores stdout and out['txt']
\* holds the captured text.
ExitWith ==
    /\ pc = "exit_with"
    /\ redirected' = forcefully_redirect_stdout_exit
    /\ pc' = "assemble"
    /\ UNCHANGED <<inputs, apart, pool, captures, parameter_vectors, txt, solver,
                   starmap, exc, result, ending>>

\* UnwindWith without a with statement: an exception skips the release.
UnwindWith_NoRelease ==
    /\ pc = "unwind"
    /\ pc' = IF fn = "opt_routine" THEN "finally" ELSE "except"
    /\ UNCHANGED <<inputs, apart, pool, redirected, captures, parameter_vectors, txt,
                   solver, starmap, exc, result, ending>>

\* An exception leaves the with block: the context manager's exit runs before
\* the exception reaches the finally clause (main.py:109) or the except clause
\* (axis_solve.py:218).
UnwindWith ==
    /\ pc = "unwind"
    /\ redirected' = forcefully_redirect_stdout_exit
    /\ pc' = IF fn = "opt_routine" THEN "finally" ELSE "except"
    /\ UNCHANGED <<inputs, apart, pool, captures, parameter_vectors, txt, solver,
                   starmap, exc, result, ending>>

\* pool.close(); pool.join(): the workers exit and are waited for
CloseJoin(p) == [p EXCEPT !.state = "joined", !.alive = 0]

\* main.py:102-108: parse the captured text and put the histories and the
\* duration on the result; a ValueError of the parser leaves the try block.
Assemble ==
    /\ pc = "assemble" /\ fn = "opt_routine"
    /\ LET cost_by_iter == parse_cost_by_iter_lbfgsb(txt) IN
       IF cost_by_iter.raised # None
       THEN exc' = cost_by_iter.raised /\ UNCHANGED result
       ELSE /\ result' = [result EXCEPT !.x_iter = parameter_vectors,
                                        !.fun_iter = cost_by_iter.value,
                                        !.has_x_iter = TRUE, !.has_fun_iter = TRUE,
                                        !.has_time = TRUE]
            /\ UNCHANGED exc
    /\ pc' = "finally"
    /\ UNCHANGED <<inputs, apart, pool, redirected, captures, parameter_vectors, txt,
                   solver, starmap, ending>>

\* main.py:109-112: the finally clause tears the pool down, then the pending
\* return or exception continues to the caller.
Finally ==
    /\ pc = "finally"
    /\ pool' = IF pool.state # None THEN CloseJoin(pool) ELSE pool
    /\ IF exc = None
       THEN outcome' = "returned" /\ raised' = None /\ handed' = result
       ELSE outcome' = "raised" /\ raised' = exc /\ handed' = NoResult
    /\ pc' = "done"
    /\ UNCHANGED <<inputs, apart, redirected, captures, parameter_vectors, txt, solver,
                   starmap, exc, result>>

\* axis_solve.py:204-217: parse, put the guess in front of the history, fill
\* the result, tear the pool down and return; a ValueError of the parser goes
\* to the except clause.
SphAssemble ==
    /\ pc = "assemble" /\ fn = "sph"
    /\ LET cost_by_iter == parse_cost_by_iter_lbfgsb(txt) IN
       IF cost_by_iter.raised # None
       THEN /\ exc' = cost_by_iter.raised
            /\ pc' = "except"
            /\ UNCHANGED <<parameter_vectors, result, pool, ending>>
       ELSE /\ parameter_vectors' = <<guess>> \o parameter_vectors
            /\ result' = [result EXCEPT !.x_iter = parameter_vectors',
                                        !.fun_iter = cost_by_iter.value,
                                        !.has_x_iter = TRUE, !.has_fun_iter = TRUE,
                                        !.has_time = TRUE]
            /\ pool' = CloseJoin(pool)
            /\ outcome' = "returned" /\ raised' = None /\ handed' = result'
            /\ pc' = "done"
            /\ UNCHANGED exc
    /\ UNCHANGED <<inputs, apart, redirected, captures, txt, solver, starmap>>

\* SphExcept re-raising without the teardown of lines 219-220
SphExcept_NoTeardown ==
    /\ pc = "except"
    /\ outcome' = "raised" /\ raised' = exc /\ handed' = NoResult
    /\ pc' = "done"
    /\ UNCHANGED <<inputs, apart, pool, redirected, captures, parameter_vectors, txt,
                   solver, starmap, exc, result>>

\* axis_solve.py:218-221: except Exception as e: pool.close(); pool.join(); raise e
SphExcept ==
    /\ pc = "except"
    /\ pool' = CloseJoin(pool)
    /\ outcome' = "raised" /\ raised' = exc /\ handed' = NoResult
    /\ pc' = "done"
    /\ UNCHANGED <<inputs, apart, redirected, captures, parameter_vectors, txt, solver,
                   starmap, exc, result>>

\* ----------------------------------------------------------- specification
Next ==
    \/ Call
    \/ CreatePool
    \/ PrepareGlobals
    \/ PrepareGlobalsRaises
    \/ EnterTry
    \/ EnterWith
    \/ BindArgs
    \/ StartSolver
    \/ SolverEval
    \/ SolverIterate0
    \/ SolverNewX
    \/ SolverReturn
    \/ SolverRaises
    \/ OptfcnCall
    \/ WorkerStart
    \/ WorkerFinish
    \/ WorkerRaises
    \/ StarmapReturn
    \/ OptfcnReturn
    \/ ExitWith
    \/ UnwindWith
    \/ Assemble
    \/ Finally
    \/ SphAssemble
    \/ SphExcept

Spec == Init /\ [][Next]_vars

\* ------------------------------------------------------------------ claims
InSolver == pc \in {"solver", "optfcn", "starmap", "reduce"}

\* C1: in opt_routine with parallel=True, once the pool exists it is closed
\* and joined on every exit path, so no worker is alive when the call ends.
C1_PoolTornDownOnEveryExit ==
    (fn = "opt_routine" /\ parallel /\ pc = "done" /\ pool.state # None)
        => (pool.state = "joined" /\ pool.alive = 0)

\* C2: in sph_from_focusdiverse_axial_mtf, when the solver or a worker
\* evaluation raises, the pool is closed and joined before the exception
\* reaches the caller, the caller receives that same exception and no result,
\* and minimize was invoked once only.
C2_SphFailureTearsDownAndReraises ==
    fn = "sph" =>
        /\ ncalls <= 1
        /\ (pc = "done" /\ exc \in {"SolverError", "WorkerError"})
              => /\ pool.state = "joined" /\ pool.alive = 0
                 /\ outcome = "raised" /\ raised = exc
                 /\ handed = NoResult
                 /\ ncalls = 1

C2_Witness ==
    /\ fn = "sph" /\ pc = "done" /\ exc = "WorkerError" /\ nit >= 1
    /\ pool.state = "joined" /\ raised = "WorkerError"

\* C3: every result opt_routine returns has parameter and cost histories of
\* equal length.
C3_HistoriesEqualLength ==
    (fn = "opt_routine" /\ outcome = "returned")
        => Len(handed.x_iter) = Len(handed.fun_iter)

\* C4: when the captured text yields a number of costs different from the
\* number of recorded parameter vectors, the run raises.
C4_MismatchRaises ==
    (/\ fn = "opt_routine" /\ pc = "done" /\ result.set
     /\ parse_cost_by_iter_lbfgsb(txt).raised = None
     /\ Len(parse_cost_by_iter_lbfgsb(txt).value) # Len(parameter_vectors))
        => outcome = "raised"

\* C5: in opt_routine the guess is in the history before the solver is
\* invoked: from the start of the solver call on the history is non-empty and
\* starts with the guess, and so does x_iter of every returned result.
C5_GuessIsIteration0 ==
    fn = "opt_routine" =>
        /\ ncalls >= 1 => (Len(parameter_vectors) >= 1 /\ parameter_vectors[1] = guess)
        /\ outcome = "returned" => (Len(handed.x_iter) >= 1 /\ handed.x_iter[1] = guess)

C5_Witness ==
    /\ fn = "opt_routine" /\ outcome = "returned"
    /\ Len(handed.x_iter) >= 3
    /\ handed.x_iter[1] = guess /\ handed.x_iter[2] # guess

\* C6: a failed run of opt_routine hands no result to the caller, and a result
\* is returned only with x_iter, fun_iter and time set and the two histories
\* aligned.
C6_ResultOnlyAfterAlignment ==
    fn = "opt_routine" =>
        /\ (pc = "done" /\ exc # None) => (outcome = "raised" /\ handed = NoResult)
        /\ outcome = "returned"
              => /\ handed.has_x_iter /\ handed.has_fun_iter /\ handed.has_time
                 /\ Len(handed.x_iter) = Len(handed.fun_iter)

\* C7: the stdout capture is acquired once, around the one solver invocation,
\* and is released on every way out of it: it is held while the solver runs,
\* never held when the driver has returned or raised, and already released
\* when the handlers run and the pool is torn down.
C7_CaptureScoped ==
    /\ captures <= 1 /\ ncalls <= captures
    /\ InSolver => redirected
    /\ pc \in {"assemble", "finally", "except", "done"} => ~redirected
    /\ pool.state = "joined" => ~redirected

C7_Witness ==
    /\ pc = "done" /\ exc = "SolverError" /\ nfev >= 1
    /\ captures = 1 /\ ~redirected /\ pool.state = "joined"

\* C8: a guess whose length differs from the decoder ring's makes the driver
\* fail before the pool is created: no pool exists and the objective is never
\* evaluated for such an input.
C8_ConfigErrorsEager ==
    (pc # "idle" /\ Len(guess) # Len(decoder_ring))
        => (pool.state = None /\ nfev = 0 /\ jobs = <<>> /\ costfcn = <<>>)

\* C9: for every number of cores c >= 1 the pool is created, with exactly
\* max(1, c - 1) workers.
C9_PoolSize ==
    (pc \notin {"idle", "pool"} /\ (fn = "sph" \/ parallel))
        => (pool.state # None /\ pool.processes = Max(1, cpu_count - 1))

\* C10: the list starmap returns holds the cost of focus plane i at index i,
\* whatever the order in which the workers completed.
C10_StarmapInputOrder ==
    (pool.state # None /\ costfcn # <<>>)
        => /\ Len(costfcn) = planes
           /\ \A i \in 1..planes :
                 costfcn[i] = realize_focus_plane(Pupil(x), t_true[i], s_true[i],
                                                  defocus_pupils[i])

C10_Witness ==
    /\ pool.state = "running" /\ costfcn # <<>>
    /\ done_order = <<2, 1>>
    /\ costfcn[1] # costfcn[2]
\* the objective of trial vector v with the planes listed in the given order
ObjectiveInOrder(v, order) ==
    net_costfcn_reducer([i \in DOMAIN order |->
        realize_focus_plane(Pupil(v), TruthT(order[i]), TruthS(order[i]),
                            Defocus(order[i]))])

\* C11: the value optfcn returns for a trial vector is the value it has with
\* the focus planes listed in sorted order, whatever order the truth data
\* lists them in and whatever order the workers complete in.
C11_ObjectivePermutationInvariant ==
    (pc = "solver" /\ fresh) =>
        fval = ObjectiveInOrder(x, [i \in 1..planes |-> i])

\* an evaluation over permuted planes with unequal plane costs, the second
\* listed plane completing first
C11_Witness ==
    /\ pc = "solver" /\ fresh
    /\ plane_order = <<2, 1>>
    /\ done_order = <<2, 1>>
    /\ ~costfcn[1].nan /\ costfcn[1] # costfcn[2]

Unfinished == { i \in DOMAIN jobs : jobs[i].st \in {"queued", "running"} }

\* C12: a per-plane evaluation is queued or running only while the
\* coordinating process is blocked in pool.starmap, and the tasks then are
\* those of the one outstanding call: the next objective evaluation starts
\* with no task of the previous one unfinished.
C12_EvaluationsDoNotOverlap ==
    /\ Unfinished # {} => pc = "starmap"
    /\ pc = "starmap" => (Len(jobs) = planes /\ pool.maps = nfev + 1)

\* a later evaluation with both workers busy
C12_Witness ==
    /\ pc = "starmap" /\ nfev >= 1
    /\ Cardinality(Running) = 2

\* C13: when starmap has returned to optfcn, the pool has served exactly one
\* starmap call per objective evaluation, and a worker has invoked the
\* evaluator exactly once for each focus plane, with that plane's t_true,
\* s_true and defocus pupil.
C13_OneStarmapOneCallPerPlane ==
    (pc = "reduce" /\ pool.state # None) =>
        /\ pool.maps = nfev + 1
        /\ Len(jobs) = planes
        /\ \A i \in 1..planes :
              /\ jobs[i].runs = 1
              /\ jobs[i].args = <<t_true[i], s_true[i], defocus_pupils[i]>>
        /\ Len(costfcn) = planes

\* the third evaluation of a run over two planes has returned from starmap
C13_Witness ==
    /\ pc = "reduce" /\ pool.state # None
    /\ planes = 2 /\ nfev = 2

AllPositions(rr) == UNION { { <<o, i>> : i \in DOMAIN rr[o] } : o \in DOMAIN rr }
TrueMinimum(rr) ==
    CHOOSE v \in { rr[p[1]][p[2]] : p \in AllPositions(rr) } :
        \A p \in AllPositions(rr) : v <= rr[p[1]][p[2]]
FirstAttained(rr) ==
    CHOOSE p \in AllPositions(rr) :
        /\ rr[p[1]][p[2]] = TrueMinimum(rr)
        /\ \A r \in AllPositions(rr) :
              rr[r[1]][r[2]] = TrueMinimum(rr) =>
                  (p[1] < r[1] \/ (p[1] = r[1] /\ p[2] <= r[2]))

LastOp == doc_ops[Len(doc_ops)]

\* C15: the document correct_global_document returns stores the minimum of
\* rrmswfe_iter over every run and iteration as rrmswfe_final, and applying
\* it to its own output changes nothing.
C15_CorrectionYieldsMinimumIdempotent ==
    (doc_ops # <<>> /\ LastOp = "correct_global_document") =>
        /\ document.rrmswfe_final = TrueMinimum(document.rrmswfe_iter)
        /\ Len(doc_ops) >= 3 => document = previous

\* a stale two-run document whose stored final was not the minimum, corrected twice
C15_Witness ==
    /\ doc_ops = <<"stale", "correct_global_document", "correct_global_document">>
    /\ Len(doc_args.rrmswfe_iter) = 2
    /\ StaleDocument(doc_args).rrmswfe_final # TrueMinimum(doc_args.rrmswfe_iter)
    /\ document.rrmswfe_final = TrueMinimum(doc_args.rrmswfe_iter)

\* the field set of a ResultDocument
ResultDocumentFields ==
    {"sim_params", "codex", "truth_params", "truth_rmswfe", "zernike_normed",
     "result_iter", "cost_iter", "rrmswfe_iter", "result_final", "cost_first",
     "cost_final", "rrmswfe_first", "rrmswfe_final", "time", "nit", "nfev",
     "nrandomstart", "global"}

\* C16: a document prepared by prepare_document_local or by
\* prepare_document_global has exactly the fields of a ResultDocument.
C16_DocumentFieldSet ==
    (doc_ops # <<>> /\ doc_ops[1] \in {"prepare_document_local", "prepare_document_global"})
        => DOMAIN document = ResultDocumentFields

\* C17: prepare_document_global stores the lowest residual of all runs and
\* iterations as rrmswfe_final, and as cost_final the cost at the position
\* where that residual is first attained.
C17_GlobalFinalIsFirstLowest ==
    doc_ops = <<"prepare_document_global">> =>
        /\ document.rrmswfe_final = TrueMinimum(doc_args.rrmswfe_iter)
        /\ LET p == FirstAttained(doc_args.rrmswfe_iter) IN
              document.cost_final = doc_args.optimization_result.fun_iter[p[1]][p[2]]

\* the lowest residual is attained in both runs, and not at the first iteration
C17_Witness ==
    /\ doc_ops = <<"prepare_document_global">>
    /\ doc_args.rrmswfe_iter = <<<<1, 0>>, <<0, 1>>>>
    /\ document.cost_final = CostAt(1, 2)

\* C18: in opt_routine the history holds the guess and one vector per
\* callback invocation, during the solver call and in every returned result;
\* a run without an accepted iteration returns x_iter = [guess].
C18_HistoryLengthIsOnePlusCallbacks ==
    fn = "opt_routine" =>
        /\ ncalls >= 1 => Len(parameter_vectors) = 1 + nit
        /\ outcome = "returned" =>
              /\ Len(handed.x_iter) = 1 + handed.nit
              /\ handed.nit = 0 => handed.x_iter = <<guess>>

\* a returned run in which the solver accepted no iteration
C18_Witness ==
    /\ fn = "opt_routine" /\ outcome = "returned"
    /\ handed.nit = 0 /\ nfev >= 1
    /\ handed.x_iter = <<guess>>

LastQueueOp == q_ops[Len(q_ops)]
Occurrences(seq, v) == Cardinality({ k \in DOMAIN seq : seq[k] = v })

\* C19: when put, get or mark_done has completed, the file at path holds the
\* in-memory queue; and a PersistentQueue constructed right after a get does
\* not hold the item get returned (an item put once).
C19_FileEqualsMemoryAfterMutation ==
    /\ (/\ q_ops # <<>>
        /\ LastQueueOp.op \in {"put", "get", "mark_done"}
        /\ LastQueueOp.raised = None)
          => (path_file.exists /\ Unpickle(path_file) = q)
    /\ (/\ Len(q_ops) >= 2
        /\ LastQueueOp.op = "__init__"
        /\ q_ops[Len(q_ops) - 1].op = "get"
        /\ q_ops[Len(q_ops) - 1].raised = None
        /\ Occurrences(puts, q_ops[Len(q_ops) - 1].item) = 1)
          => \A k \in DOMAIN q : q[k] # q_ops[Len(q_ops) - 1].item

\* the calls before position n are put and mark_done calls only
OnlyPutAndMarkDone(n) ==
    \A k \in 1..n : q_ops[k].op \in {"put", "mark_done"}
Done(n) ==
    Cardinality({ k \in 1..n : q_ops[k].op = "mark_done" /\ q_ops[k].raised = None })
\* the items put and not removed by the first n calls, oldest first
Remaining(n) == SubSeq(puts, Done(n) + 1, Len(puts))

\* C20: a PersistentQueue constructed on the path after put and mark_done
\* calls holds the items put and not yet removed, in the order they were put,
\* and a get or peek on it returns the oldest of them.
C20_FifoSurvivesReopening ==
    /\ (/\ q_ops # <<>>
        /\ LastQueueOp.op = "__init__"
        /\ OnlyPutAndMarkDone(Len(q_ops) - 1))
          => q = Remaining(Len(q_ops) - 1)
    /\ (/\ Len(q_ops) >= 2
        /\ LastQueueOp.op \in {"get", "peek"}
        /\ q_ops[Len(q_ops) - 1].op = "__init__"
        /\ OnlyPutAndMarkDone(Len(q_ops) - 2))
          => IF Done(Len(q_ops) - 2) < Len(puts)
             THEN /\ LastQueueOp.raised = None
                  /\ LastQueueOp.item = puts[Done(Len(q_ops) - 2) + 1]
             ELSE LastQueueOp.raised = "IndexError"

\* put 2, put 1, mark_done, a new PersistentQueue, and get returns 1
C20_Witness ==
    /\ Len(q_ops) = 5
    /\ q_ops[1].op = "put" /\ q_ops[2].op = "put" /\ q_ops[3].op = "mark_done"
    /\ q_ops[4].op = "__init__" /\ q_ops[5].op = "get"
    /\ puts = <<2, 1>> /\ removed = <<2, 1>>
    /\ q_ops[5].item = 1 /\ q = <<>>

\* the step is a call of peek
PeekStep ==
    /\ Len(q_ops') = Len(q_ops) + 1
    /\ q_ops'[Len(q_ops')].op = "peek"

\* C21: a call of peek leaves the in-memory queue and the file as they were;
\* on a non-empty queue it returns the leftmost item, on an empty queue it
\* raises and the queue is empty afterwards.
C21_PeekNonDestructive ==
    [][PeekStep =>
          /\ q' = q
          /\ path_file' = path_file
          /\ IF q = <<>>
             THEN q_ops'[Len(q_ops')].raised = "IndexError" /\ q' = <<>>
             ELSE /\ q_ops'[Len(q_ops')].raised = None
                  /\ q_ops'[Len(q_ops')].item = Head(q)]_vars

\* peek has returned the older of two queued items, both still queued
C21_Witness ==
    /\ q_ops # <<>>
    /\ LastQueueOp.op = "peek" /\ LastQueueOp.item = 2
    /\ q = <<2, 1>>
    /\ Unpickle(path_file) = <<2, 1>>

\* C22: prepare_document_global on the flat histories of a single trial
\* returns a document with nrandomstart = 1, the three histories wrapped as
\* one-element lists, and nit the number of cost entries; it does not raise.
C22_SingleTrialWrapped ==
    (/\ doc_ops # <<>>
     /\ ~doc_args.nested
     /\ doc_ops[1] # "prepare_document_local")
        => /\ doc_ops[1] = "prepare_document_global"
           /\ document.nrandomstart = 1
           /\ document.result_iter = <<doc_args.optimization_result.x_iter>>
           /\ document.cost_iter = <<doc_args.optimization_result.fun_iter>>
           /\ document.rrmswfe_iter = <<doc_args.rrmswfe_iter>>
           /\ document.nit = Len(doc_args.optimization_result.fun_iter)

\* C23: while the pool exists every worker has run the initializer exactly
\* once, however many objective evaluations were made, and the globals the
\* workers read are the values that were broadcast.
C23_InitializerOnceContextReadOnly ==
    pool.state # None =>
        /\ Len(pool.inits) = pool.processes
        /\ \A w \in 1..pool.processes : pool.inits[w] = 1
        /\ pool.context = Context

\* two workers, two evaluations made and a per-plane evaluation of the third
\* finished
C23_Witness ==
    /\ pool.state = "running" /\ pool.processes = 2
    /\ nfev = 2 /\ pc = "starmap"
    /\ \E i \in DOMAIN jobs : jobs[i].st = "ok"
    /\ diffraction = 1

\* C24: in opt_routine a step never shortens the history and never changes
\* an entry it already holds.
C24_HistoryAppendOnly ==
    [][fn = "opt_routine" =>
          /\ Len(parameter_vectors') >= Len(parameter_vectors)
          /\ \A k \in 1..Len(parameter_vectors) :
                parameter_vectors'[k] = parameter_vectors[k]]_vars

\* the history holds the guess and two different accepted vectors
C24_Witness ==
    /\ fn = "opt_routine" /\ pc = "solver"
    /\ Len(parameter_vectors) = 3
    /\ parameter_vectors[2] # parameter_vectors[1]
    /\ parameter_vectors[3] # parameter_vectors[2]

\* C25: split_lbfgsb_iters returns one chunk per marker without raising;
\* chunk i runs from the i-th marker to just before the next one, the last
\* chunk to the end of the text.
C25_OneChunkPerMarker ==
    pc = "split" =>
        /\ blobs.raised = None
        /\ Len(blobs.value) = Len(Markers)
        /\ \A i \in 1..Len(Markers) :
              blobs.value[i] =
                  SubSeq(txt, Markers[i],
                         IF i < Len(Markers) THEN Markers[i + 1] - 1 ELSE Len(txt))

\* C26: on the same multi-start document correct_global_document and
\* recheck_min_rrmswfe_document report the same rrmswfe_final, and the
\* document either of them returns stores as cost_final the cost of a
\* position at which rrmswfe_iter has the reported rrmswfe_final.
C26_CorrectAndRecheckAgree ==
    (/\ doc_ops # <<>>
     /\ LastOp \in {"correct_global_document", "recheck_min_rrmswfe_document"})
        => /\ correct_global_document(previous).rrmswfe_final
                = recheck_min_rrmswfe_document(previous).rrmswfe_final
           /\ \E p \in AllPositions(document.rrmswfe_iter) :
                 /\ document.rrmswfe_iter[p[1]][p[2]] = document.rrmswfe_final
                 /\ document.cost_iter[p[1]][p[2]] = document.cost_final

\* C27: in opt_routine, for core_opts None as for a tuple of options, a call
\* that has entered the redirected block has started the solver by the time
\* it ends, and a non-None core_opts never ends the call with an error raised
\* before the solver was started.
C27_CoreOptsReachSolver ==
    (fn = "opt_routine" /\ pc = "done" /\ captures >= 1)
        => /\ ncalls = 1
           /\ (core_opts # None => exc # "UnboundLocalError")

====
